---- MODULE Spec2Model ----
(***************************************************************************)
(* Model of process_olympic_data.py: process_data() turns the athlete      *)
(* table read from summerOly_athletes.csv into one feature row per         *)
(* (Year, NOC, code) group.  The pandas and Python operations the function *)
(* uses (to_numeric, unique, sorted, groupby, merge, fillna) are modelled  *)
(* by what they do to missing values, because several properties of the    *)
(* output depend on exactly that.                                          *)
(***************************************************************************)
EXTENDS Integers, Sequences, FiniteSets, TLC

VARIABLES raw, pc, result

vars == <<raw, pc, result>>

(***************************************************************************)
(* Missing values.  NaN is the float64 "not a number" of a numeric column, *)
(* NA the missing cell of an object (string) column.  No comparison with   *)
(* NaN is true.                                                            *)
(***************************************************************************)
NaN == -1

NA == "NA"

Lt(a, b) == a # NaN /\ b # NaN /\ a < b

Eq(a, b) == a # NaN /\ b # NaN /\ a = b

(***************************************************************************)
(* A division result.  The code's rates and means are floats; the model    *)
(* keeps numerator and denominator.  0/0 stands for a missing float.       *)
(***************************************************************************)
Frac(n, d) == [num |-> n, den |-> d]

Zero == Frac(0, 1)

NaNFrac == Frac(0, 0)

FracEq(x, y) == x.num * y.den = y.num * x.den

(***************************************************************************)
(* pd.to_numeric(column, errors='coerce') on one cell: a cell of decimal   *)
(* digits becomes its value, any other text becomes NaN.  A cell is a      *)
(* sequence of one-character strings.                                      *)
(***************************************************************************)
Digits == <<"0", "1", "2", "3", "4", "5", "6", "7", "8", "9">>

IsDigit(c) == \E i \in 1..Len(Digits) : Digits[i] = c

DigitVal(c) == (CHOOSE i \in 1..Len(Digits) : Digits[i] = c) - 1

RECURSIVE DecimalValue(_)
DecimalValue(s) ==
    IF s = <<>> THEN 0
    ELSE 10 * DecimalValue(SubSeq(s, 1, Len(s) - 1)) + DigitVal(s[Len(s)])

to_numeric(s) ==
    IF s # <<>> /\ \A i \in 1..Len(s) : IsDigit(s[i]) THEN DecimalValue(s) ELSE NaN

\* .fillna(0).astype(int) of the host column
fillna0(x) == IF x = NaN THEN 0 ELSE x

\* .astype(str) of the code column: a missing cell becomes the string 'nan'
astype_str(v) == IF v = NA THEN "nan" ELSE v

\* lines 203-205: the type coercions of process_data
Preprocess(t) ==
    [i \in 1..Len(t) |->
        [Year  |-> to_numeric(t[i].Year),
         NOC   |-> t[i].NOC,
         code  |-> astype_str(t[i].code),
         Event |-> t[i].Event,
         Name  |-> t[i].Name,
         Medal |-> t[i].Medal,
         Host  |-> fillna0(to_numeric(t[i].Host))]]

(***************************************************************************)
(* Series.unique(): the distinct values in order of first appearance; all  *)
(* NaN count as one value.                                                 *)
(***************************************************************************)
RECURSIVE unique(_)
unique(s) ==
    IF s = <<>> THEN <<>>
    ELSE LET front == unique(SubSeq(s, 1, Len(s) - 1))
             x     == s[Len(s)]
         IN IF \E i \in 1..Len(front) : front[i] = x THEN front
            ELSE Append(front, x)

(***************************************************************************)
(* Python's sorted() on a list of fewer than 64 floats (CPython listsort): *)
(* count_run finds the leading run, reversing it when strictly descending, *)
(* and binarysort inserts the remaining elements one by one.  Every        *)
(* comparison is "<" on floats, which is false whenever NaN takes part.    *)
(***************************************************************************)
RECURSIVE RunLen(_, _, _)
RunLen(a, i, desc) ==
    IF i > Len(a) THEN Len(a)
    ELSE IF desc = Lt(a[i], a[i - 1]) THEN RunLen(a, i + 1, desc)
    ELSE i - 1

Reverse(a) == [i \in 1..Len(a) |-> a[Len(a) + 1 - i]]

\* the position (0-based) at which binarysort inserts pivot into a[0..r)
RECURSIVE BinarySearch(_, _, _, _)
BinarySearch(a, pivot, l, r) ==
    IF l >= r THEN l
    ELSE LET p == l + ((r - l) \div 2)
         IN IF Lt(pivot, a[p + 1]) THEN BinarySearch(a, pivot, l, p)
            ELSE BinarySearch(a, pivot, p + 1, r)

\* a[0..start) is sorted; insert a[start], a[start+1], ... in turn
RECURSIVE BinarySort(_, _)
BinarySort(a, start) ==
    IF start >= Len(a) THEN a
    ELSE LET pivot == a[start + 1]
             l     == BinarySearch(a, pivot, 0, start)
             moved == SubSeq(a, 1, l) \o <<pivot>> \o SubSeq(a, l + 1, start)
                         \o SubSeq(a, start + 2, Len(a))
         IN BinarySort(moved, start + 1)

sorted(a) ==
    IF Len(a) < 2 THEN a
    ELSE LET desc == Lt(a[2], a[1])
             n    == RunLen(a, 3, desc)
             run  == IF desc THEN Reverse(SubSeq(a, 1, n)) ELSE SubSeq(a, 1, n)
         IN BinarySort(run \o SubSeq(a, n + 1, Len(a)), n)

(***************************************************************************)
(* Helpers over tables (sequences of rows).                                *)
(***************************************************************************)
Column(t, f) == [i \in 1..Len(t) |-> t[i][f]]

Values(s) == {s[i] : i \in 1..Len(s)}

RECURSIVE SumSeq(_)
SumSeq(s) == IF s = <<>> THEN 0 ELSE s[1] + SumSeq(Tail(s))

RECURSIVE SumSet(_, _)
SumSet(S, f) ==
    IF S = {} THEN 0
    ELSE LET x == CHOOSE y \in S : TRUE IN f[x] + SumSet(S \ {x}, f)

\* Series.count(): the cells that are not missing
count(s) == Len(SelectSeq(s, LAMBDA v : v # NA))

\* Series.nunique(): the distinct values that are not missing
nunique(s) == Cardinality(Values(s) \ {NA})

\* Python compares strings by code point; the strings that occur as NOC or
\* code in the model, in that order
Collation == <<"ATH", "CHN", "SWM", "USA", "nan">>

StrPos(a) == CHOOSE i \in 1..Len(Collation) : Collation[i] = a

StrLt(a, b) == StrPos(a) < StrPos(b)

\* tuples of group keys compare lexicographically: Year first when the key
\* has three parts
KeyLt(k, o) ==
    IF Len(k) = 3
    THEN \/ k[1] < o[1]
         \/ k[1] = o[1] /\ StrLt(k[2], o[2])
         \/ k[1] = o[1] /\ k[2] = o[2] /\ StrLt(k[3], o[3])
    ELSE \/ StrLt(k[1], o[1])
         \/ k[1] = o[1] /\ StrLt(k[2], o[2])

\* groupby(...) sorts the group keys
RECURSIVE SortKeys(_)
SortKeys(S) ==
    IF S = {} THEN <<>>
    ELSE LET m == CHOOSE k \in S : \A o \in S \ {k} : KeyLt(k, o)
         IN <<m>> \o SortKeys(S \ {m})

\* groupby(['Year', 'NOC', 'code']): rows with a missing key part belong
\* to no group (dropna=True is the default)
YearNocCodeKeys(df) ==
    SortKeys({<<df[i].Year, df[i].NOC, df[i].code>> :
                i \in {j \in 1..Len(df) : df[j].Year # NaN /\ df[j].NOC # NA}})

YearNocCodeGroup(df, k) ==
    SelectSeq(df, LAMBDA r : r.Year = k[1] /\ r.NOC = k[2] /\ r.code = k[3])

\* groupby(['NOC', 'code'])
NocCodeKeys(df) ==
    SortKeys({<<df[i].NOC, df[i].code>> : i \in {j \in 1..Len(df) : df[j].NOC # NA}})

NocCodeGroup(df, k) == SelectSeq(df, LAMBDA r : r.NOC = k[1] /\ r.code = k[2])

\* a host test that takes any non-zero cell for the host mark
host_dict_nonzero(df) ==
    {<<df[i].Year, df[i].NOC>> : i \in {j \in 1..Len(df) : df[j].Host # 0}}

(***************************************************************************)
(* lines 211-212: the (Year, NOC) pairs of the rows whose host column is 1 *)
(***************************************************************************)
host_dict(df) ==
    {<<df[i].Year, df[i].NOC>> : i \in {j \in 1..Len(df) : df[j].Host = 1}}

(***************************************************************************)
(* lines 216-229: one row of basic counts per (Year, NOC, code) group      *)
(***************************************************************************)
MedalCount(g, m) == Len(SelectSeq(g, LAMBDA r : r.Medal = m))

StatsRow(df, k) ==
    LET g == YearNocCodeGroup(df, k)
    IN [time                             |-> k[1],
        country_code                     |-> k[2],
        sport_category_code              |-> k[3],
        year_country_sport_participation |-> count(Column(g, "Name")),
        actual_gold_count                |-> MedalCount(g, "Gold"),
        actual_silver_count              |-> MedalCount(g, "Silver"),
        actual_bronze_count              |-> MedalCount(g, "Bronze"),
        sport_event_count                |-> nunique(Column(g, "Event"))]

BasicStats(df) ==
    LET keys == YearNocCodeKeys(df)
    IN [i \in 1..Len(keys) |-> StatsRow(df, keys[i])]

\* line 233: df.groupby('Year')['Name'].count(), looked up for one year
year_participation(df, y) ==
    count(Column(SelectSeq(df, LAMBDA r : r.Year = y), "Name"))

\* line 237: the per-group counts summed over the stats rows that share
\* (time, sport_category_code)
year_sport_participation(stats, y, c) ==
    SumSeq(Column(SelectSeq(stats,
                    LAMBDA s : s.time = y /\ s.sport_category_code = c),
                  "year_country_sport_participation"))

(***************************************************************************)
(* lines 254-258: athlete_medals_dict, a count of medal rows per key       *)
(* (NOC, code, Name, Year), kept in insertion order.  Two keys are the     *)
(* same dictionary key when their parts are equal; a NaN year equals no    *)
(* year, not even another NaN, while the missing name is one value.        *)
(***************************************************************************)
SameKey(k, o) == k[1] = o[1] /\ k[2] = o[2] /\ k[3] = o[3] /\ Eq(k[4], o[4])

HasMedal(r) == r.Medal # NA /\ r.Medal # "No medal"

DictAdd(d, key) ==
    IF \E i \in 1..Len(d) : SameKey(d[i].key, key)
    THEN [i \in 1..Len(d) |->
            IF SameKey(d[i].key, key) THEN [d[i] EXCEPT !.n = @ + 1] ELSE d[i]]
    ELSE Append(d, [key |-> key, n |-> 1])

RECURSIVE athlete_medals_dict(_)
athlete_medals_dict(df) ==
    IF df = <<>> THEN <<>>
    ELSE LET d   == athlete_medals_dict(SubSeq(df, 1, Len(df) - 1))
             row == df[Len(df)]
         IN IF HasMedal(row)
            THEN DictAdd(d, <<row.NOC, row.code, row.Name, row.Year>>)
            ELSE d

(***************************************************************************)
(* lines 261-301: star and rising-star counts of one stats row.  The       *)
(* result is <<star_count, rising_count>>.                                 *)
(***************************************************************************)
\* list.index(year): the 0-based position of the first equal element, or
\* -1 where Python raises ValueError
index(a, y) ==
    IF \E i \in 1..Len(a) : Eq(a[i], y)
    THEN (CHOOSE i \in 1..Len(a) :
            Eq(a[i], y) /\ \A j \in 1..(i - 1) : ~Eq(a[j], y)) - 1
    ELSE -1

\* athletes_medals[name][y] after the loop of lines 280-286
MedalsIn(dict, noc, code, name, y) ==
    LET hits == SelectSeq(dict, LAMBDA e : e.key[1] = noc /\ e.key[2] = code
                                            /\ e.key[3] = name /\ Eq(e.key[4], y))
    IN IF hits = <<>> THEN 0 ELSE hits[1].n

Lookback(dict, all_years, year, noc, code) ==
    LET year_idx == index(all_years, year)
    IN IF year_idx = -1 THEN <<0, 0>>          \* the except branch
       ELSE IF year_idx < 2 THEN <<0, 0>>
       ELSE LET last_year == all_years[year_idx]
                prev_year == all_years[year_idx - 1]
                names == {dict[i].key[3] :
                            i \in {j \in 1..Len(dict) :
                                    /\ dict[j].key[1] = noc
                                    /\ dict[j].key[2] = code
                                    /\ \/ Eq(dict[j].key[4], last_year)
                                       \/ Eq(dict[j].key[4], prev_year)}}
                star == {a \in names :
                            /\ MedalsIn(dict, noc, code, a, last_year) > 0
                            /\ MedalsIn(dict, noc, code, a, prev_year) > 0}
                rising == {a \in names :
                            MedalsIn(dict, noc, code, a, last_year) >= 2}
            IN <<Cardinality(star), Cardinality(rising)>>

(***************************************************************************)
(* lines 57-105: calculate_historical_rates on one (NOC, code) group       *)
(***************************************************************************)
NoRates == [gold |-> Zero, silver |-> Zero, bronze |-> Zero]

\* medal_rank.get(m, 4)
medal_rank(m) ==
    CASE m = "Gold"   -> 1
      [] m = "Silver" -> 2
      [] m = "Bronze" -> 3
      [] OTHER        -> 4

Min(S) == CHOOSE x \in S : \A y \in S : x <= y

Max(S) == CHOOSE x \in S : \A y \in S : x >= y

\* groupby('Name') leaves out the rows without a name
best_medal(rows, name) ==
    Min({medal_rank(rows[i].Medal) : i \in {j \in 1..Len(rows) : rows[j].Name = name}})

\* rates that count every medal row instead of each athlete's best medal
calculate_historical_rates_per_row(group) ==
    LET years == sorted(unique(Column(group, "Year")))
    IN IF Len(years) < 2 THEN NoRates
       ELSE LET current_year    == years[Len(years)]
                historical_data == SelectSeq(group, LAMBDA r : Lt(r.Year, current_year))
                total_athletes  == Cardinality(Values(Column(historical_data, "Name")))
                medals(m)       == Len(SelectSeq(historical_data,
                                        LAMBDA r : r.Name # NA /\ r.Medal = m))
            IN IF total_athletes = 0 THEN NoRates
               ELSE [gold   |-> Frac(medals("Gold"), total_athletes),
                     silver |-> Frac(medals("Silver"), total_athletes),
                     bronze |-> Frac(medals("Bronze"), total_athletes)]

calculate_historical_rates(group) ==
    LET years == sorted(unique(Column(group, "Year")))
    IN IF Len(years) < 2 THEN NoRates
       ELSE LET current_year    == years[Len(years)]
                historical_data == SelectSeq(group, LAMBDA r : Lt(r.Year, current_year))
                total_athletes  == Cardinality(Values(Column(historical_data, "Name")))
                named           == Values(Column(historical_data, "Name")) \ {NA}
                winners(rank)   == Cardinality({a \in named :
                                        best_medal(historical_data, a) = rank})
            IN IF total_athletes = 0 THEN NoRates
               ELSE [gold   |-> Frac(winners(1), total_athletes),
                     silver |-> Frac(winners(2), total_athletes),
                     bronze |-> Frac(winners(3), total_athletes)]

(***************************************************************************)
(* lines 156-174: calculate_career_length on one (NOC, code) group         *)
(***************************************************************************)
FirstGames == 1896

MaxCareer == 24

\* the valid years of one athlete; min and max skip NaN
YearsOf(group, name) ==
    {group[i].Year : i \in {j \in 1..Len(group) :
                                group[j].Name = name /\ group[j].Year # NaN}}

calculate_career_length(group) ==
    IF Len(group) = 0 THEN Zero
    ELSE LET athletes == Values(Column(group, "Name")) \ {NA}
             dated    == {a \in athletes : YearsOf(group, a) # {}}
             career_lengths == [a \in dated |->
                                  Max(YearsOf(group, a)) - Min(YearsOf(group, a))]
             valid    == {a \in dated : career_lengths[a] <= MaxCareer}
             firsts   == {Min(YearsOf(group, a)) : a \in dated}
         IN IF firsts # {} /\ Min(firsts) = FirstGames THEN Zero
            ELSE IF valid # {} THEN Frac(SumSet(valid, career_lengths), Cardinality(valid))
            ELSE Zero

(***************************************************************************)
(* lines 308-315: the per-(NOC, code) tables of rates and career lengths   *)
(***************************************************************************)
RateColumns ==
    {"country_sport_gold_rate", "country_sport_silver_rate", "country_sport_bronze_rate"}

CareerColumns == {"avg_career_length"}

\* a rates table grouped by (Year, NOC, code): one row per year of a pair
RatesTable_per_year(df) ==
    LET keys == YearNocCodeKeys(df)
    IN [i \in 1..Len(keys) |->
          LET r == calculate_historical_rates(
                       NocCodeGroup(df, <<keys[i][2], keys[i][3]>>))
          IN [country_code               |-> keys[i][2],
              sport_category_code        |-> keys[i][3],
              country_sport_gold_rate    |-> r.gold,
              country_sport_silver_rate  |-> r.silver,
              country_sport_bronze_rate  |-> r.bronze]]

RatesTable(df) ==
    LET keys == NocCodeKeys(df)
    IN [i \in 1..Len(keys) |->
          LET r == calculate_historical_rates(NocCodeGroup(df, keys[i]))
          IN [country_code               |-> keys[i][1],
              sport_category_code        |-> keys[i][2],
              country_sport_gold_rate    |-> r.gold,
              country_sport_silver_rate  |-> r.silver,
              country_sport_bronze_rate  |-> r.bronze]]

CareerTable(df) ==
    LET keys == NocCodeKeys(df)
    IN [i \in 1..Len(keys) |->
          [country_code        |-> keys[i][1],
           sport_category_code |-> keys[i][2],
           avg_career_length   |-> calculate_career_length(NocCodeGroup(df, keys[i]))]]

(***************************************************************************)
(* lines 319-320: left.merge(right, on=[country_code, sport_category_code],*)
(* how='left').  Every left row yields one row per matching right row, in  *)
(* order, or one row with the right columns missing when nothing matches.  *)
(***************************************************************************)
RECURSIVE Flatten(_)
Flatten(ss) == IF ss = <<>> THEN <<>> ELSE ss[1] \o Flatten(Tail(ss))

merge(left, right, columns) ==
    Flatten([i \in 1..Len(left) |->
        LET row  == left[i]
            hits == SelectSeq(right,
                      LAMBDA q : /\ q.country_code = row.country_code
                                 /\ q.sport_category_code = row.sport_category_code)
        IN IF hits = <<>> THEN <<row @@ [c \in columns |-> NaNFrac]>>
           ELSE [j \in 1..Len(hits) |-> row @@ [c \in columns |-> hits[j][c]]]])

\* line 333: fillna(0); only the merged float columns can be missing
fillna(t) ==
    [i \in 1..Len(t) |->
        [c \in DOMAIN t[i] |->
            IF c \in RateColumns \cup CareerColumns /\ t[i][c] = NaNFrac
            THEN Zero ELSE t[i][c]]]

(***************************************************************************)
(* lines 231-304: the stats rows with the participation totals, the host   *)
(* flag and the lookback counts added                                      *)
(***************************************************************************)
Stats(df) ==
    LET stats     == BasicStats(df)
        hosts     == host_dict(df)
        all_years == sorted(unique(Column(df, "Year")))
        dict      == athlete_medals_dict(df)
    IN [i \in 1..Len(stats) |->
          LET row  == stats[i]
              look == Lookback(dict, all_years, row.time, row.country_code,
                               row.sport_category_code)
          IN row @@
             [year_total_participation       |-> year_participation(df, row.time),
              year_sport_total_participation |->
                  year_sport_participation(stats, row.time, row.sport_category_code),
              is_host            |-> IF <<row.time, row.country_code>> \in hosts
                                     THEN 1 ELSE 0,
              star_athlete_count |-> look[1],
              rising_star_count  |-> look[2]]]

\* lines 194-333: the table process_data writes
Output(t) ==
    LET df == Preprocess(t)
    IN fillna(merge(merge(Stats(df), RatesTable(df), RateColumns),
                    CareerTable(df), CareerColumns))

(***************************************************************************)
(* The input tables.  A raw row is one line of the CSV file; Year and Host *)
(* are cells of text.                                                      *)
(***************************************************************************)
Y1896 == <<"1", "8", "9", "6">>

Y1904 == <<"1", "9", "0", "4">>

Y1924 == <<"1", "9", "2", "4">>

BadYear == <<"n", "/", "a">>

H1 == <<"1">>

H0 == <<"0">>

H2 == <<"2">>

BadHost == <<"y", "e", "s">>

Row(y, noc, code, event, name, medal, host) ==
    [Year |-> y, NOC |-> noc, code |-> code, Event |-> event, Name |-> name,
     Medal |-> medal, Host |-> host]

\* the tables of one to n rows
Tables(Rows, n) == UNION {[1..k -> Rows] : k \in 1..n}

\* rows that differ in their group key, some without a usable Year or NOC
KeyRows ==
    {Row(y, n, c, "E1", "A", "Gold", H0) :
        y \in {Y1896, Y1904, BadYear}, n \in {"USA", "CHN", NA}, c \in {"ATH", "SWM"}}
    \cup {Row(Y1896, "USA", NA, "E1", "A", "Gold", H0)}

\* rows that differ in their host cell
HostRows ==
    {Row(y, n, c, "E1", "A", "No medal", h) :
        y \in {Y1896, Y1904}, n \in {"USA", "CHN"}, c \in {"ATH", "SWM"},
        h \in {H1, H0}}
    \cup {Row(Y1896, "USA", "ATH", "E1", "A", "No medal", H2),
          Row(Y1896, "USA", "ATH", "E1", "A", "No medal", BadHost),
          Row(BadYear, "USA", "ATH", "E1", "A", "No medal", H1)}

\* rows of one (NOC, code) group that differ in athlete and medal
RateRows ==
    {Row(y, "USA", "ATH", "E1", a, m, H0) :
        y \in {Y1896, Y1904}, a \in {"A", "B"},
        m \in {"Gold", "Silver", "Bronze", "No medal"}}
    \cup {Row(BadYear, "USA", "ATH", "E1", "A", "Gold", H0),
          Row(Y1896, "USA", "ATH", "E1", NA, "Gold", H0),
          Row(Y1896, "USA", "ATH", "E1", "A", NA, H0)}

\* rows of one sport over three Games and two countries
LookbackRows ==
    {Row(y, n, "ATH", "E1", "A", m, H0) :
        y \in {Y1896, Y1904, Y1924, BadYear}, n \in {"USA", "CHN"},
        m \in {"Gold", "No medal"}}

\* rows of one (NOC, code) group over three Games
CareerRows ==
    {Row(y, "USA", "ATH", "E1", a, "No medal", H0) :
        y \in {Y1896, Y1904, Y1924, BadYear}, a \in {"A", "B", NA}}

\* rows that differ in event, athlete and medal
MedalRows ==
    {Row(y, n, "ATH", e, a, m, H0) :
        y \in {Y1896, Y1904}, n \in {"USA", "CHN"}, e \in {"E1", "E2"},
        a \in {"A", NA}, m \in {"Gold", "Silver", "Bronze", "No medal", NA}}

MaxKeyRows == 3

MaxHostRows == 3

MaxRateRows == 3

MaxLookbackRows == 4

MaxCareerRows == 3

MaxMedalRows == 2

(***************************************************************************)
(* The program: the table is read, process_data computes and saves the     *)
(* feature table.                                                          *)
(***************************************************************************)
Loaded(Rows, n) ==
    /\ raw \in Tables(Rows, n)
    /\ pc = "loaded"
    /\ result = <<>>

\* Without a single (Year, NOC, code) group the stats frame has no rows:
\* stats.apply(..., axis=1) of line 241 then returns a frame, not a column,
\* the assignment raises, and nothing is written.
process_data ==
    /\ pc = "loaded"
    /\ IF BasicStats(Preprocess(raw)) = <<>>
       THEN pc' = "failed" /\ result' = <<>>
       ELSE pc' = "saved" /\ result' = Output(raw)
    /\ UNCHANGED raw

Next == process_data

InitKeys == Loaded(KeyRows, MaxKeyRows)

InitHost == Loaded(HostRows, MaxHostRows)

InitRates == Loaded(RateRows, MaxRateRows)

InitLookback == Loaded(LookbackRows, MaxLookbackRows)

InitCareer == Loaded(CareerRows, MaxCareerRows)

InitMedals == Loaded(MedalRows, MaxMedalRows)

SpecKeys == InitKeys /\ [][Next]_vars

SpecHost == InitHost /\ [][Next]_vars

SpecRates == InitRates /\ [][Next]_vars

SpecLookback == InitLookback /\ [][Next]_vars

SpecCareer == InitCareer /\ [][Next]_vars

SpecMedals == InitMedals /\ [][Next]_vars

(***************************************************************************)
(* The properties.  Table is the input after the coercions; an output row  *)
(* exists once process_data has saved.                                     *)
(***************************************************************************)
Table == Preprocess(raw)

Saved == pc = "saved"

InKey(r) == <<r.Year, r.NOC, r.code>>

OutKey(r) == <<r.time, r.country_code, r.sport_category_code>>

KeyCount(k) == Cardinality({j \in 1..Len(result) : OutKey(result[j]) = k})

Keyed(r) == r.Year # NaN /\ r.NOC # NA

\* C1 as stated: every (Year, NOC, code) triple of an input row, whatever
\* its parts, has exactly one output row, and no key occurs twice.
C1_OneRowPerTriple ==
    Saved =>
        /\ \A i \in 1..Len(Table) : KeyCount(InKey(Table[i])) = 1
        /\ \A j \in 1..Len(result) : KeyCount(OutKey(result[j])) = 1

\* C1 amended: every triple of an input row that has a numeric Year and a
\* NOC has exactly one output row, every output row has the triple of such
\* an input row, and no key occurs twice: the two left joins neither drop
\* nor duplicate a row.
C1_OneRowPerKeyedTriple ==
    Saved =>
        /\ \A i \in 1..Len(Table) : Keyed(Table[i]) => KeyCount(InKey(Table[i])) = 1
        /\ \A j \in 1..Len(result) :
              /\ KeyCount(OutKey(result[j])) = 1
              /\ \E i \in 1..Len(Table) :
                    Keyed(Table[i]) /\ InKey(Table[i]) = OutKey(result[j])

\* two Games of one (NOC, code) pair, each with its row, beside an input
\* row whose Year is not a number
C1_Witness ==
    /\ Saved
    /\ Len(result) = 2
    /\ result[1].time # result[2].time
    /\ result[1].country_code = result[2].country_code
    /\ result[1].sport_category_code = result[2].sport_category_code
    /\ \E i \in 1..Len(Table) : Table[i].Year = NaN

MedalSum(r) == r.actual_gold_count + r.actual_silver_count + r.actual_bronze_count

\* C2: in every output row the gold, silver and bronze counts together do
\* not exceed year_country_sport_participation.
C2_MedalsWithinParticipation ==
    Saved =>
        \A j \in 1..Len(result) :
            MedalSum(result[j]) <= result[j].year_country_sport_participation

\* the valid years of the whole input, and the two that precede y in them
GlobalYears == Values(Column(Table, "Year")) \ {NaN}

Rank(y) == Cardinality({x \in GlobalYears : x < y}) + 1

Before(y) == Max({x \in GlobalYears : x < y})

\* the named athletes with a medal for (noc, code) in year y
Medalists(noc, code, y) ==
    {Table[i].Name :
        i \in {k \in 1..Len(Table) :
                /\ Table[k].NOC = noc /\ Table[k].code = code /\ Table[k].Year = y
                /\ HasMedal(Table[k])}} \ {NA}

\* C3: a row at a year beyond the first two of the global sorted years has
\* as star_athlete_count the number of athletes of its (NOC, code) with a
\* medal in each of the two global years just before its own.
C3_StarCountOverGlobalWindow ==
    Saved =>
        \A j \in 1..Len(result) :
            LET r    == result[j]
                last == Before(r.time)
                prev == Before(last)
            IN Rank(r.time) > 2 =>
                 r.star_athlete_count =
                     Cardinality(Medalists(r.country_code, r.sport_category_code, last)
                        \cap Medalists(r.country_code, r.sport_category_code, prev))

\* C4: a row whose year is the first or second of the global sorted years
\* has star_athlete_count 0 and rising_star_count 0.
C4_NoLookbackInFirstTwoGames ==
    Saved =>
        \A j \in 1..Len(result) :
            Rank(result[j].time) <= 2 =>
                result[j].star_athlete_count = 0 /\ result[j].rising_star_count = 0

RateSumAtMostOne(r) ==
    LET g == r.country_sport_gold_rate
        s == r.country_sport_silver_rate
        b == r.country_sport_bronze_rate
    IN g.num * s.den * b.den + s.num * g.den * b.den + b.num * g.den * s.den
          <= g.den * s.den * b.den

SameRates(r, q) ==
    /\ FracEq(r.country_sport_gold_rate, q.country_sport_gold_rate)
    /\ FracEq(r.country_sport_silver_rate, q.country_sport_silver_rate)
    /\ FracEq(r.country_sport_bronze_rate, q.country_sport_bronze_rate)

\* C5: output rows of one (NOC, code) pair carry the same three rates
\* whatever their year, and in every row the three rates sum to at most 1.
C5_RatesPerPairAndBounded ==
    Saved =>
        /\ \A j, k \in 1..Len(result) :
              /\ result[j].country_code = result[k].country_code
              /\ result[j].sport_category_code = result[k].sport_category_code
              => SameRates(result[j], result[k])
        /\ \A j \in 1..Len(result) : RateSumAtMostOne(result[j])

\* two Games of one pair whose rows both carry a gold and a silver rate
\* above 0 that, with the bronze rate, sum to exactly 1
C5_Witness ==
    /\ Saved
    /\ \E j, k \in 1..Len(result) :
          /\ result[j].time < result[k].time
          /\ result[j].country_code = result[k].country_code
          /\ result[j].sport_category_code = result[k].sport_category_code
          /\ result[k].country_sport_gold_rate.num > 0
          /\ result[k].country_sport_silver_rate.num > 0
          /\ result[k].country_sport_gold_rate.num
                + result[k].country_sport_silver_rate.num
                + result[k].country_sport_bronze_rate.num
             = result[k].country_sport_gold_rate.den

\* the rows of (noc, code) before the pair's latest year, and their athletes
PairYears(noc, code) ==
    {Table[i].Year : i \in {k \in 1..Len(Table) :
                              Table[k].NOC = noc /\ Table[k].code = code}} \ {NaN}

Historical(noc, code) ==
    SelectSeq(Table, LAMBDA r : /\ r.NOC = noc /\ r.code = code /\ r.Year # NaN
                                /\ r.Year < Max(PairYears(noc, code)))

Athletes(rows) == Values(Column(rows, "Name")) \ {NA}

ExpectedRate(noc, code, rank) ==
    IF Cardinality(PairYears(noc, code)) < 2 \/ Athletes(Historical(noc, code)) = {}
    THEN Zero
    ELSE Frac(Cardinality({a \in Athletes(Historical(noc, code)) :
                              best_medal(Historical(noc, code), a) = rank}),
              Cardinality(Athletes(Historical(noc, code))))

\* C6: the rate of a colour is the number of athletes whose best medal
\* over the rows before the pair's latest year is that colour, divided by
\* the number of athletes in those rows, and 0 for a pair with fewer than
\* two years or no such athlete.
C6_RateIsBestMedalShare ==
    Saved =>
        \A j \in 1..Len(result) :
            LET r == result[j]
            IN /\ FracEq(r.country_sport_gold_rate,
                         ExpectedRate(r.country_code, r.sport_category_code, 1))
               /\ FracEq(r.country_sport_silver_rate,
                         ExpectedRate(r.country_code, r.sport_category_code, 2))
               /\ FracEq(r.country_sport_bronze_rate,
                         ExpectedRate(r.country_code, r.sport_category_code, 3))

\* the input without the rows whose Year is not a number
WithoutBadYears == SelectSeq(raw, LAMBDA r : to_numeric(r.Year) # NaN)

\* C7: every output row has the star_athlete_count and rising_star_count
\* it would have if the rows whose Year fails coercion were not in the
\* input.
C7_BadYearsChangeNoLookback ==
    Saved =>
        LET clean == Output(WithoutBadYears)
        IN \A j \in 1..Len(result) :
              \E k \in 1..Len(clean) :
                  /\ OutKey(clean[k]) = OutKey(result[j])
                  /\ clean[k].star_athlete_count = result[j].star_athlete_count
                  /\ clean[k].rising_star_count = result[j].rising_star_count

\* C8: every output row of a (NOC, code) pair whose earliest year in the
\* input is 1896 has avg_career_length 0.
C8_FirstGamesPairHasNoCareer ==
    Saved =>
        \A j \in 1..Len(result) :
            Min(PairYears(result[j].country_code, result[j].sport_category_code))
                = FirstGames
            => result[j].avg_career_length.num = 0

\* C9: year_sport_total_participation of a row is the sum of
\* year_country_sport_participation over the output rows of its (year,
\* code), and is the number of input rows of that year and code.
C9_SportTotalIsSumAndRowCount ==
    Saved =>
        \A j \in 1..Len(result) :
            LET r == result[j]
            IN /\ r.year_sport_total_participation =
                    SumSeq(Column(SelectSeq(result,
                              LAMBDA q : /\ q.time = r.time
                                         /\ q.sport_category_code = r.sport_category_code),
                           "year_country_sport_participation"))
               /\ r.year_sport_total_participation =
                    Len(SelectSeq(Table,
                          LAMBDA t : t.Year = r.time /\ t.code = r.sport_category_code))

Hosted(y, noc) ==
    \E i \in 1..Len(Table) :
        Table[i].Year = y /\ Table[i].NOC = noc /\ Table[i].Host = 1

\* C10: is_host of a row is 1 exactly when some input row of its (Year,
\* NOC) has the host column equal to 1, and 0 otherwise, so the rows of one
\* (year, NOC) agree on it across sport codes.
C10_HostFlagPerYearAndNoc ==
    Saved =>
        /\ \A j \in 1..Len(result) :
              result[j].is_host =
                  IF Hosted(result[j].time, result[j].country_code) THEN 1 ELSE 0
        /\ \A j, k \in 1..Len(result) :
              /\ result[j].time = result[k].time
              /\ result[j].country_code = result[k].country_code
              => result[j].is_host = result[k].is_host

\* two sports of one hosting (year, NOC): one marked by its own rows, the
\* other, which has no row with the host column 1, marked all the same
C10_Witness ==
    /\ Saved
    /\ \E j, k \in 1..Len(result) :
          /\ result[j].time = result[k].time
          /\ result[j].country_code = result[k].country_code
          /\ result[j].sport_category_code # result[k].sport_category_code
          /\ result[j].is_host = 1
          /\ result[k].is_host = 1
          /\ \A i \in 1..Len(Table) :
                InKey(Table[i]) = OutKey(result[k]) => Table[i].Host # 1

====
